---- MODULE Spec2Model ----
(***************************************************************************)
(* Model of doc_to_md's bounded-context chunking and stitching subsystem:  *)
(* the conversion loop of cli.convert, the Mistral engine (page planner,   *)
(* chunk dispatch with bounded retry, stitching), the SiliconFlow engine   *)
(* (token windows, one chat call per window), the local engine, the retry  *)
(* wrapper and the token splitter of utils/tokens.py.                      *)
(*                                                                         *)
(* One state machine, several specifications:                              *)
(*   Spec       the conversion loop driving any of the three engines       *)
(*   SpecPlan   MistralEngine._prepare_chunks alone, over wide inputs      *)
(*   SpecRetry  _request_with_retry alone, around an arbitrary operation   *)
(*   SpecSplit  split_by_tokens alone                                      *)
(*   SpecLoop   the conversion loop around the local engine, over every    *)
(*              modification time and every --since                        *)
(*   SpecChunk  split_by_tokens or _prepare_chunks run to its end, under   *)
(*              weak fairness of the call's next step                      *)
(***************************************************************************)
EXTENDS Integers, Sequences, FiniteSets, TLC

\* ------------------------------------------------------------------ bounds
\* pages of a document handed to the planner alone (SpecPlan)
MaxPlanPages == 5
\* per-page token estimate (count_tokens of the page text)
MaxPageTokens == 2
\* mistral_max_pages_per_chunk ranges over 1..MaxPagesPerChunk
MaxPagesPerChunk == 3
\* mistral_max_pdf_tokens ranges over 0..MaxTokenBudget
MaxTokenBudget == 3
\* candidates in the input directory of one run
MaxDocs == 2
\* pages of a document converted in a run
MaxDocPages == 6
\* retry_attempts in a run
MaxAttempts == 2
\* retry_attempts ranges over 1..MaxRetryAttempts when the wrapper is taken
\* alone (SpecRetry)
MaxRetryAttempts == 4
\* modification times range over 0..MaxTime
MaxTime == 2
\* chunk indices named by an operation handed to the retry wrapper alone,
\* and the values such an operation returns
MaxOpIndex == 3
\* tokens of a text handed to split_by_tokens
MaxTextTokens == 25
\* max_tokens and overlap_tokens range over -1..MaxWindow
MaxWindow == 10
\* tokens of a text extracted in a run
MaxRunTokens == 7
\* siliconflow_max_input_tokens in a run
RunWindow == 3

\* self._retry_backoff = 1.5 seconds, in tenths of a second
RetryBackoff == 15

VARIABLES
    \* --- the run's inputs (settings, command line, input directory)
    engine,               \* engine_name
    docs,                 \* iter_documents(input_dir): the candidates, in order
    max_pages_per_chunk,  \* self.max_pages_per_chunk
    max_pdf_tokens,       \* self.max_pdf_tokens
    retry_attempts,       \* self.retry_attempts
    dry_run,              \* --dry-run
    since_timestamp,      \* --since, [set |-> FALSE] when absent
    max_tokens,           \* max_tokens (SiliconFlowEngine: self.max_tokens)
    overlap_tokens,       \* overlap_tokens (SiliconFlowEngine: self.chunk_overlap)
    \* --- position
    pc,                   \* where the thread of control is
    cursor,               \* 1-based index into docs of source_path
    mtime,                \* mtime, as _should_process returned it for source_path
    \* --- MistralEngine._prepare_chunks
    total_pages,          \* len(reader.pages)
    tokens_per_page,      \* tokens_per_page
    start,                \* start (0-based page index of the next group)
    chunks,               \* chunks (the plan)
    \* --- MistralEngine.convert / _process_chunk
    idx,                  \* index of the chunk being processed (1-based)
    upload,               \* upload.id: the call of files.upload that made it, 0 = none
    responses,            \* pages in the response _process_chunk returned, per chunk
    all_pages,            \* all_pages
    base_response,        \* chunk whose response is base_response, 0 = None
    engine_response,      \* what convert returned, <<>> before it returns
    \* --- SiliconFlowEngine.convert (its chunks are segments)
    markdown_parts,       \* markdown_parts
    \* --- _request_with_retry
    retry,                \* the wrapper's locals and its outcome
    \* --- cli.convert
    metrics,              \* RunMetrics
    files,                \* Markdown files in output_dir: [stem, doc]
    summary,              \* the summary logged at the end, <<>> before
    \* --- split_by_tokens
    tokens,               \* encoding.encode(text or "")
    split_start,          \* start
    segments              \* segments, as returned

inputs == <<engine, docs, max_pages_per_chunk, max_pdf_tokens, retry_attempts,
            dry_run, since_timestamp, max_tokens, overlap_tokens>>
planVars == <<total_pages, tokens_per_page, start, chunks>>
engineVars == <<idx, upload, responses, all_pages, base_response, engine_response,
               markdown_parts>>
cliVars == <<metrics, files, summary>>

splitVars == <<tokens, split_start, segments>>

vars == <<inputs, pc, cursor, mtime, planVars, engineVars, retry, cliVars, splitVars>>

\* ------------------------------------------------------------ data types
\* chunk.page_range is None: the empty tuple (falsy in the code as well)
NoRange == <<>>

\* _DocumentChunk(data, label, page_range). data is the payload: the original
\* bytes, or the pages (1-based) written into the sub-document.
DocumentChunk(data, label, page_range) ==
    [data |-> data, label |-> label, page_range |-> page_range]

OriginalBytes == [original |-> TRUE, pages |-> <<>>]
SubDocument(pages) == [original |-> FALSE, pages |-> pages]

\* path.name, and f"{path.stem}_p{first:03d}-{last:03d}.pdf"
NameLabel(doc) == [stem |-> doc.stem, first |-> 0, last |-> 0]
PartLabel(doc, first, last) == [stem |-> doc.stem, first |-> first, last |-> last]

SeqSum(s) ==
    LET F[i \in 0..Len(s)] == IF i = 0 THEN 0 ELSE F[i - 1] + s[i]
    IN F[Len(s)]

\* list(range(a, b)) shifted to 1-based page numbers: a+1 .. b
PagesOf(a, b) == [i \in 1..(b - a) |-> a + i]

source_path == docs[cursor]

\* ---------------------------------------------------- _request_with_retry
NoExc == [step |-> "none", index |-> 0, call |-> 0]
\* the exception raised by the call-th invocation of the operation
Exc(operation, call) == [step |-> operation.step, index |-> operation.index, call |-> call]

NoResult == [kind |-> "none", call |-> 0, payload |-> 0,
             operation |-> [step |-> "none", index |-> 0], attempts |-> 0,
             cause |-> NoExc]
\* `return func()`: the value of the call-th invocation
Returned(call, payload) == [NoResult EXCEPT !.kind = "value", !.call = call,
                                            !.payload = payload]
\* raise RuntimeError(f"Operation '{operation}' failed after {n} attempts") from last_exc
Raised(operation, attempts, last_exc) ==
    [NoResult EXCEPT !.kind = "error", !.operation = operation,
                     !.attempts = attempts, !.cause = last_exc]

\* f"mistral_upload_{index}", f"mistral_process_{index}", ...
Operation(step, index) == [step |-> step, index |-> index]
NoOperation == Operation("none", 0)

\* the wrapper entered for `operation`: delay = self._retry_backoff,
\* last_exc = None, and the for loop at its first attempt. calls (the outcome
\* of each invocation of func) and sleeps (each time.sleep) record what it did.
RetryEntry(operation) ==
    [operation |-> operation, attempt |-> 1, delay |-> RetryBackoff,
     last_exc |-> NoExc, calls |-> <<>>, sleeps |-> <<>>, result |-> NoResult]

\* no call of the wrapper is in progress
RetryIdle == RetryEntry(NoOperation)

\* RequestWithRetry over range(1, attempts): the last attempt is never made
RequestWithRetryOneShort(r, attempts, ok, payload) ==
    IF ok
    THEN [r EXCEPT !.calls = Append(@, TRUE),
                   !.result = Returned(r.attempt, payload)]
    ELSE IF r.attempt >= attempts - 1
         THEN [r EXCEPT !.calls = Append(@, FALSE),
                        !.last_exc = Exc(r.operation, r.attempt),
                        !.result = Raised(r.operation, attempts,
                                          Exc(r.operation, r.attempt))]
         ELSE [r EXCEPT !.calls = Append(@, FALSE),
                        !.last_exc = Exc(r.operation, r.attempt),
                        !.sleeps = Append(@, r.delay),
                        !.delay = @ * 2,
                        !.attempt = @ + 1]

\* RequestWithRetry sleeping after the last failed attempt as well (the
\* break placed after time.sleep)
RequestWithRetrySleepsLast(r, attempts, ok, payload) ==
    IF ok
    THEN [r EXCEPT !.calls = Append(@, TRUE),
                   !.result = Returned(r.attempt, payload)]
    ELSE IF r.attempt = attempts
         THEN [r EXCEPT !.calls = Append(@, FALSE),
                        !.last_exc = Exc(r.operation, r.attempt),
                        !.sleeps = Append(@, r.delay),
                        !.result = Raised(r.operation, attempts,
                                          Exc(r.operation, r.attempt))]
         ELSE [r EXCEPT !.calls = Append(@, FALSE),
                        !.last_exc = Exc(r.operation, r.attempt),
                        !.sleeps = Append(@, r.delay),
                        !.delay = @ * 2,
                        !.attempt = @ + 1]

\* one pass of the for loop: func() is invoked and returns payload (ok) or
\* raises; on the last attempt the loop breaks and the RuntimeError is raised
RequestWithRetry(r, attempts, ok, payload) ==
    IF ok
    THEN [r EXCEPT !.calls = Append(@, TRUE),
                   !.result = Returned(r.attempt, payload)]
    ELSE IF r.attempt = attempts
         THEN [r EXCEPT !.calls = Append(@, FALSE),
                        !.last_exc = Exc(r.operation, r.attempt),
                        !.result = Raised(r.operation, attempts,
                                          Exc(r.operation, r.attempt))]
         ELSE [r EXCEPT !.calls = Append(@, FALSE),
                        !.last_exc = Exc(r.operation, r.attempt),
                        !.sleeps = Append(@, r.delay),
                        !.delay = @ * 2,
                        !.attempt = @ + 1]

\* ------------------------------------------------------------ cli.convert
RunMetrics == [total_candidates |-> 0, skipped_by_since |-> 0, dry_run |-> 0,
               successes |-> 0, failures |-> 0]

\* RunMetrics.eligible
Eligible(m) == m.total_candidates - m.skipped_by_since

NoSince == [set |-> FALSE, at |-> 0]

\* the locals of the engine's convert, gone when it returns or raises
EngineIdle ==
    /\ markdown_parts' = <<>>
    /\ tokens' = <<>>
    /\ split_start' = 0
    /\ segments' = <<>>
    /\ total_pages' = 0
    /\ tokens_per_page' = <<>>
    /\ start' = 0
    /\ chunks' = <<>>
    /\ idx' = 0
    /\ upload' = 0
    /\ responses' = <<>>
    /\ all_pages' = <<>>
    /\ base_response' = 0
    /\ retry' = RetryIdle

\* ConvertRaised with `break` in place of `continue`
ConvertRaisedBreaks ==
    /\ metrics' = [metrics EXCEPT !.failures = @ + 1]
    /\ cursor' = Len(docs) + 1
    /\ pc' = "loop"
    /\ EngineIdle
    /\ engine_response' = <<>>
    /\ UNCHANGED <<inputs, mtime, files, summary>>

\* engine_instance.convert raised: the except clause of the loop
\* (log_error, metrics.failures += 1, continue)
ConvertRaised ==
    /\ metrics' = [metrics EXCEPT !.failures = @ + 1]
    /\ cursor' = cursor + 1
    /\ pc' = "loop"
    /\ EngineIdle
    /\ engine_response' = <<>>
    /\ UNCHANGED <<inputs, mtime, files, summary>>

\* ShouldProcess with mtime > since_timestamp (a file modified at the very
\* timestamp is left out)
ShouldProcessStrict(stat, since) ==
    IF stat.missing THEN FALSE
    ELSE IF ~since.set THEN TRUE
    ELSE stat.mtime > since.at

\* _should_process(path, since_timestamp)[0]; stat is "missing" when
\* path.stat() raises FileNotFoundError, else the modification time
ShouldProcess(stat, since) ==
    IF stat.missing THEN FALSE
    ELSE IF ~since.set THEN TRUE
    ELSE stat.mtime >= since.at

\* path.stat() raised FileNotFoundError: mtime is None
NoStat == [missing |-> TRUE, mtime |-> 0]

Stats == {NoStat} \cup {[missing |-> FALSE, mtime |-> t] : t \in 0..MaxTime}

\* Visit without the `continue` of the dry-run branch: the candidate is
\* counted as dry-run and converted all the same
VisitDryRunFallsThrough(StatSet) ==
    /\ pc = "loop"
    /\ cursor <= Len(docs)
    /\ \E stat \in StatSet :
         /\ mtime' = stat
         /\ IF ~ShouldProcess(stat, since_timestamp)
            THEN /\ metrics' = [metrics EXCEPT !.total_candidates = @ + 1,
                                               !.skipped_by_since = @ + 1]
                 /\ cursor' = cursor + 1
                 /\ pc' = "loop"
            ELSE IF dry_run
            THEN /\ metrics' = [metrics EXCEPT !.total_candidates = @ + 1,
                                               !.dry_run = @ + 1]
                 /\ cursor' = cursor
                 /\ pc' = "convert"
            ELSE /\ metrics' = [metrics EXCEPT !.total_candidates = @ + 1]
                 /\ cursor' = cursor
                 /\ pc' = "convert"
    /\ UNCHANGED <<inputs, planVars, engineVars, retry, files, summary, splitVars>>

\* Visit with total_candidates += 1 placed after the since filter
VisitCountsAfterFilter(StatSet) ==
    /\ pc = "loop"
    /\ cursor <= Len(docs)
    /\ \E stat \in StatSet :
         /\ mtime' = stat
         /\ IF ~ShouldProcess(stat, since_timestamp)
            THEN /\ metrics' = [metrics EXCEPT !.skipped_by_since = @ + 1]
                 /\ cursor' = cursor + 1
                 /\ pc' = "loop"
            ELSE IF dry_run
            THEN /\ metrics' = [metrics EXCEPT !.total_candidates = @ + 1,
                                               !.dry_run = @ + 1]
                 /\ cursor' = cursor + 1
                 /\ pc' = "loop"
            ELSE /\ metrics' = [metrics EXCEPT !.total_candidates = @ + 1]
                 /\ cursor' = cursor
                 /\ pc' = "convert"
    /\ UNCHANGED <<inputs, planVars, engineVars, retry, files, summary, splitVars>>

\* the head of the loop body for the next candidate, up to the engine call;
\* StatSet holds what path.stat() may give for it
Visit(StatSet) ==
    /\ pc = "loop"
    /\ cursor <= Len(docs)
    /\ \E stat \in StatSet :
         /\ mtime' = stat
         /\ IF ~ShouldProcess(stat, since_timestamp)
            THEN /\ metrics' = [metrics EXCEPT !.total_candidates = @ + 1,
                                               !.skipped_by_since = @ + 1]
                 /\ cursor' = cursor + 1
                 /\ pc' = "loop"
            ELSE IF dry_run
            THEN /\ metrics' = [metrics EXCEPT !.total_candidates = @ + 1,
                                               !.dry_run = @ + 1]
                 /\ cursor' = cursor + 1
                 /\ pc' = "loop"
            ELSE /\ metrics' = [metrics EXCEPT !.total_candidates = @ + 1]
                 /\ cursor' = cursor
                 /\ pc' = "convert"
    /\ UNCHANGED <<inputs, planVars, engineVars, retry, files, summary, splitVars>>

\* the loop is exhausted: log_info(_format_summary(metrics, elapsed))
Summary ==
    /\ pc = "loop"
    /\ cursor > Len(docs)
    /\ summary' = <<[total |-> metrics.total_candidates,
                     eligible |-> Eligible(metrics),
                     converted |-> metrics.successes,
                     failed |-> metrics.failures,
                     skipped_since |-> metrics.skipped_by_since,
                     dry_run |-> metrics.dry_run]>>
    /\ pc' = "done"
    /\ UNCHANGED <<inputs, cursor, mtime, planVars, engineVars, retry, metrics, files, splitVars>>

\* ------------------------------------------- MistralEngine._prepare_chunks
\* the chunk returned alone by the early returns and the fallback
WholeDocument(doc, page_range) ==
    <<DocumentChunk(OriginalBytes, NameLabel(doc), page_range)>>

\* GroupEnd with the page ceiling tested by <= instead of <
RECURSIVE GroupEndPageCeilingOff(_, _, _, _, _, _, _)
GroupEndPageCeilingOff(first, end, token_budget, total, estimates, max_pages, budget) ==
    IF end < total /\ (end - first) <= max_pages
    THEN LET token_budget2 == token_budget + estimates[end + 1]
             end2 == end + 1
         IN IF token_budget2 >= budget
            THEN end2
            ELSE GroupEndPageCeilingOff(first, end2, token_budget2, total,
                                        estimates, max_pages, budget)
    ELSE end

\* the inner while loop: extend the group from `end` with running sum
\* token_budget; the value is the final `end`
RECURSIVE GroupEnd(_, _, _, _, _, _, _)
GroupEnd(first, end, token_budget, total, estimates, max_pages, budget) ==
    IF end < total /\ (end - first) < max_pages
    THEN LET token_budget2 == token_budget + estimates[end + 1]
             end2 == end + 1
         IN IF token_budget2 >= budget
            THEN end2
            ELSE GroupEnd(first, end2, token_budget2, total, estimates, max_pages, budget)
    ELSE end

\* GroupChunk with the range's last page taken 0-based (the + 1 forgotten)
GroupChunkLastOff(doc, first, end) ==
    LET page_indices == [i \in 1..(end - first) |-> first + i - 1]
        page_range == <<page_indices[1] + 1, page_indices[Len(page_indices)]>>
    IN DocumentChunk(SubDocument(PagesOf(first, end)),
                     PartLabel(doc, page_range[1], page_range[2]),
                     page_range)

\* the chunk built from page_indices = range(first, end)
GroupChunk(doc, first, end) ==
    LET page_indices == [i \in 1..(end - first) |-> first + i - 1]
        page_range == <<page_indices[1] + 1, page_indices[Len(page_indices)] + 1>>
    IN DocumentChunk(SubDocument(PagesOf(first, end)),
                     PartLabel(doc, page_range[1], page_range[2]),
                     page_range)

\* _prepare_chunks returns plan; convert starts its loop over the chunks
\* (all_pages = [], base_response = None) and _process_chunk enters the
\* retry wrapper for the upload of the first one
ReturnChunks(plan) ==
    /\ chunks' = plan
    /\ responses' = <<>>
    /\ all_pages' = <<>>
    /\ base_response' = 0
    /\ upload' = 0
    /\ retry' = IF plan = <<>> THEN RetryIdle
                ELSE RetryEntry(Operation("mistral_upload", 1))
    /\ idx' = IF plan = <<>> THEN 0 ELSE 1
    /\ pc' = IF plan = <<>> THEN "stitch" ELSE "upload"

\* the document is opened (path.read_bytes and PdfReader may raise, which
\* leaves convert) and measured (shape: its suffix, its pages and their
\* token estimates); the early returns, or entry to the loop
PrepareChunksBegin(Shapes) ==
    /\ pc = "convert"
    /\ engine = "mistral"
    /\ \E shape \in Shapes, opened \in BOOLEAN :
         IF ~opened
         THEN ConvertRaised
         ELSE /\ IF shape.suffix # "pdf"
                 THEN /\ ReturnChunks(WholeDocument(source_path, NoRange))
                      /\ total_pages' = 0
                      /\ tokens_per_page' = <<>>
                      /\ start' = 0
                 ELSE IF shape.total_pages = 0
                 THEN /\ ReturnChunks(WholeDocument(source_path, NoRange))
                      /\ total_pages' = 0
                      /\ tokens_per_page' = <<>>
                      /\ start' = 0
                 ELSE IF /\ shape.total_pages <= max_pages_per_chunk
                         /\ SeqSum(shape.tokens_per_page) <= max_pdf_tokens
                 THEN /\ ReturnChunks(WholeDocument(source_path, <<1, shape.total_pages>>))
                      /\ total_pages' = shape.total_pages
                      /\ tokens_per_page' = shape.tokens_per_page
                      /\ start' = 0
                 ELSE /\ total_pages' = shape.total_pages
                      /\ tokens_per_page' = shape.tokens_per_page
                      /\ chunks' = <<>>
                      /\ start' = 0
                      /\ pc' = "plan"
                      /\ UNCHANGED <<idx, upload, responses, all_pages,
                                     base_response, retry>>
              /\ UNCHANGED <<inputs, cursor, mtime, engine_response, markdown_parts,
                             cliVars, splitVars>>

\* PrepareChunksGroup with a failure of _write_pdf_chunk swallowed: the
\* groups serialized so far are returned as the plan
PrepareChunksGroupKeepsPartial ==
    /\ pc = "plan"
    /\ start < total_pages
    /\ \E serialized \in BOOLEAN :
         LET end == GroupEnd(start, start, 0, total_pages, tokens_per_page,
                             max_pages_per_chunk, max_pdf_tokens)
             grown == Append(chunks, GroupChunk(source_path, start, end))
         IN IF ~serialized
            THEN /\ ReturnChunks(IF chunks # <<>> THEN chunks
                                  ELSE WholeDocument(source_path, NoRange))
                 /\ UNCHANGED <<inputs, cursor, mtime, total_pages, tokens_per_page,
                                start, engine_response, markdown_parts, cliVars,
                                splitVars>>
            ELSE /\ start' = end
                 /\ IF end < total_pages
                    THEN /\ chunks' = grown
                         /\ pc' = "plan"
                         /\ UNCHANGED <<idx, upload, responses, all_pages,
                                        base_response, retry>>
                    ELSE ReturnChunks(IF grown # <<>> THEN grown
                                      ELSE WholeDocument(source_path, NoRange))
                 /\ UNCHANGED <<inputs, cursor, mtime, total_pages, tokens_per_page,
                                engine_response, markdown_parts, cliVars, splitVars>>

\* one pass of the outer while loop, and the return when it was the last;
\* _write_pdf_chunk may raise (PdfWriter.add_page, PdfWriter.write), which
\* leaves _prepare_chunks and convert
PrepareChunksGroup ==
    /\ pc = "plan"
    /\ start < total_pages
    /\ \E serialized \in BOOLEAN :
         LET end == GroupEnd(start, start, 0, total_pages, tokens_per_page,
                             max_pages_per_chunk, max_pdf_tokens)
             grown == Append(chunks, GroupChunk(source_path, start, end))
         IN IF ~serialized
            THEN ConvertRaised
            ELSE /\ start' = end
                 /\ IF end < total_pages
                    THEN /\ chunks' = grown
                         /\ pc' = "plan"
                         /\ UNCHANGED <<idx, upload, responses, all_pages,
                                        base_response, retry>>
                    ELSE ReturnChunks(IF grown # <<>> THEN grown
                                      ELSE WholeDocument(source_path, NoRange))
                 /\ UNCHANGED <<inputs, cursor, mtime, total_pages, tokens_per_page,
                                engine_response, markdown_parts, cliVars, splitVars>>

\* ------------------------------------ MistralEngine.convert: the chunk loop
\* pages the OCR service may return for a chunk: as many as the chunk holds
\* (one for a document without pages), or one more or fewer
DeclaredPages(chunk) ==
    IF chunk.page_range = NoRange THEN 1
    ELSE chunk.page_range[2] - chunk.page_range[1] + 1

PageCounts(chunk) ==
    {n \in {DeclaredPages(chunk) - 1, DeclaredPages(chunk), DeclaredPages(chunk) + 1} :
        n >= 0}

\* UploadAttempt with the uploads sent ahead: after the upload of a chunk
\* that is not the last, the next chunk is uploaded before the OCR call
UploadAttemptAhead ==
    /\ pc = "upload"
    /\ \E ok \in BOOLEAN :
         LET r == RequestWithRetry(retry, retry_attempts, ok, 0)
         IN CASE r.result.kind = "none" ->
                   /\ retry' = r
                   /\ UNCHANGED <<inputs, pc, cursor, mtime, planVars, engineVars, cliVars, splitVars>>
              [] r.result.kind = "value" ->
                   /\ upload' = r.result.call
                   /\ IF idx < Len(chunks)
                      THEN /\ idx' = idx + 1
                           /\ retry' = RetryEntry(Operation("mistral_upload", idx + 1))
                           /\ pc' = "upload"
                      ELSE /\ idx' = idx
                           /\ retry' = RetryEntry(Operation("mistral_process", idx))
                           /\ pc' = "ocr"
                   /\ UNCHANGED <<inputs, cursor, mtime, planVars, responses, all_pages,
                                  base_response, engine_response, markdown_parts,
                                  cliVars, splitVars>>
              [] r.result.kind = "error" -> ConvertRaised

\* UploadAttempt with delay and the attempt count kept on the engine: the
\* OCR wrapper goes on from where the upload wrapper stopped
UploadAttemptSharesRetry ==
    /\ pc = "upload"
    /\ \E ok \in BOOLEAN :
         LET r == RequestWithRetry(retry, retry_attempts, ok, 0)
         IN CASE r.result.kind = "none" ->
                   /\ retry' = r
                   /\ UNCHANGED <<inputs, pc, cursor, mtime, planVars, engineVars, cliVars, splitVars>>
              [] r.result.kind = "value" ->
                   /\ upload' = r.result.call
                   /\ retry' = [RetryEntry(Operation("mistral_process", idx))
                                   EXCEPT !.attempt = r.attempt, !.delay = r.delay]
                   /\ pc' = "ocr"
                   /\ UNCHANGED <<inputs, cursor, mtime, planVars, idx, responses, all_pages,
                                  base_response, engine_response, markdown_parts,
                                  cliVars, splitVars>>
              [] r.result.kind = "error" -> ConvertRaised

\* _process_chunk, first wrapper: one attempt of client.files.upload
UploadAttempt ==
    /\ pc = "upload"
    /\ \E ok \in BOOLEAN :
         LET r == RequestWithRetry(retry, retry_attempts, ok, 0)
         IN CASE r.result.kind = "none" ->
                   /\ retry' = r
                   /\ UNCHANGED <<inputs, pc, cursor, mtime, planVars, engineVars, cliVars, splitVars>>
              [] r.result.kind = "value" ->
                   /\ upload' = r.result.call
                   /\ retry' = RetryEntry(Operation("mistral_process", idx))
                   /\ pc' = "ocr"
                   /\ UNCHANGED <<inputs, cursor, mtime, planVars, idx, responses, all_pages,
                                  base_response, engine_response, markdown_parts,
                                  cliVars, splitVars>>
              [] r.result.kind = "error" -> ConvertRaised

\* _process_chunk, second wrapper: one attempt of client.ocr.process; its
\* outcome is held while the finally clause runs
OcrAttempt ==
    /\ pc = "ocr"
    /\ \E ok \in BOOLEAN, n \in PageCounts(chunks[idx]) :
         LET r == RequestWithRetry(retry, retry_attempts, ok, n)
         IN /\ retry' = r
            /\ pc' = IF r.result.kind = "none" THEN "ocr" ELSE "delete"
    /\ UNCHANGED <<inputs, cursor, mtime, planVars, engineVars, cliVars, splitVars>>

\* Reindexed with the 1-based first page as offset (the - 1 forgotten)
ReindexedOneBased(pages, chunk, i, n) ==
    LET page_offset == IF chunk.page_range # NoRange
                       THEN chunk.page_range[1]
                       ELSE Len(pages)
    IN pages \o [k \in 1..n |-> [index |-> page_offset + (k - 1),
                                 chunk |-> i, local |-> k - 1]]

\* page.index = page_offset + page.index; all_pages.append(page), for the
\* n pages of the response to chunk i (local indices 0..n-1)
Reindexed(pages, chunk, i, n) ==
    LET page_offset == IF chunk.page_range # NoRange
                       THEN chunk.page_range[1] - 1
                       ELSE Len(pages)
    IN pages \o [k \in 1..n |-> [index |-> page_offset + (k - 1),
                                 chunk |-> i, local |-> k - 1]]

\* MoreChunks when the loop is left after its first chunk
MoreChunksNever(i, plan) == FALSE

\* `for index, chunk in enumerate(chunks, start=1)`: a chunk follows chunk i
MoreChunks(i, plan) == i < Len(plan)

\* DeleteUpload with the exhausted chunk skipped: the loop over the chunks
\* goes on with the next one and stitches what it has
DeleteUploadSkipsFailed ==
    /\ pc = "delete"
    /\ \E deleted \in BOOLEAN :
         /\ IF retry.result.kind = "error"
            THEN UNCHANGED <<responses, base_response, all_pages>>
            ELSE /\ responses' = Append(responses, retry.result.payload)
                 /\ base_response' = IF base_response = 0 THEN idx ELSE base_response
                 /\ all_pages' = Reindexed(all_pages, chunks[idx], idx,
                                           retry.result.payload)
         /\ upload' = 0
         /\ IF MoreChunks(idx, chunks)
            THEN /\ idx' = idx + 1
                 /\ retry' = RetryEntry(Operation("mistral_upload", idx + 1))
                 /\ pc' = "upload"
            ELSE /\ idx' = idx
                 /\ retry' = RetryIdle
                 /\ pc' = "stitch"
         /\ UNCHANGED <<inputs, cursor, mtime, planVars, engine_response, markdown_parts,
                        cliVars, splitVars>>

\* DeleteUpload without the inner try: a failure of client.files.delete
\* leaves _process_chunk in place of the response
DeleteUploadFailureRaises ==
    /\ pc = "delete"
    /\ \E deleted \in BOOLEAN :
         IF retry.result.kind = "error" \/ ~deleted
         THEN ConvertRaised
         ELSE /\ responses' = Append(responses, retry.result.payload)
              /\ base_response' = IF base_response = 0 THEN idx ELSE base_response
              /\ all_pages' = Reindexed(all_pages, chunks[idx], idx, retry.result.payload)
              /\ upload' = 0
              /\ IF MoreChunks(idx, chunks)
                 THEN /\ idx' = idx + 1
                      /\ retry' = RetryEntry(Operation("mistral_upload", idx + 1))
                      /\ pc' = "upload"
                 ELSE /\ idx' = idx
                      /\ retry' = RetryIdle
                      /\ pc' = "stitch"
              /\ UNCHANGED <<inputs, cursor, mtime, planVars, engine_response, markdown_parts,
                             cliVars, splitVars>>

\* the finally clause of _process_chunk (client.files.delete, its failure
\* swallowed), then the rest of the loop body in convert, or the exception
DeleteUpload ==
    /\ pc = "delete"
    /\ \E deleted \in BOOLEAN :
         IF retry.result.kind = "error"
         THEN ConvertRaised
         ELSE /\ responses' = Append(responses, retry.result.payload)
              /\ base_response' = IF base_response = 0 THEN idx ELSE base_response
              /\ all_pages' = Reindexed(all_pages, chunks[idx], idx, retry.result.payload)
              /\ upload' = 0
              /\ IF MoreChunks(idx, chunks)
                 THEN /\ idx' = idx + 1
                      /\ retry' = RetryEntry(Operation("mistral_upload", idx + 1))
                      /\ pc' = "upload"
                 ELSE /\ idx' = idx
                      /\ retry' = RetryIdle
                      /\ pc' = "stitch"
              /\ UNCHANGED <<inputs, cursor, mtime, planVars, engine_response, markdown_parts,
                             cliVars, splitVars>>

\* SortedPages without the sort: the pages in the order they were merged
SortedPagesAsMerged(pages) == pages

\* sorted(all_pages, key=lambda page: page.index): a stable sort
InsertPage(sorted, page) ==
    LET k == Cardinality({j \in 1..Len(sorted) : sorted[j].index <= page.index})
    IN SubSeq(sorted, 1, k) \o <<page>> \o SubSeq(sorted, k + 1, Len(sorted))

SortedPages(pages) ==
    LET F[i \in 0..Len(pages)] ==
            IF i = 0 THEN <<>> ELSE InsertPage(F[i - 1], pages[i])
    IN F[Len(pages)]

\* _format_range
FormatRange(chunk) ==
    IF chunk.page_range = NoRange THEN [kind |-> "label", first |-> 0, last |-> 0]
    ELSE IF chunk.page_range[1] = chunk.page_range[2]
    THEN [kind |-> "page", first |-> chunk.page_range[1], last |-> chunk.page_range[1]]
    ELSE [kind |-> "pages", first |-> chunk.page_range[1], last |-> chunk.page_range[2]]

\* Notice with the test len(chunks) >= 1
NoticeAlways(plan) ==
    LET Ranged(chunk) == chunk.page_range # NoRange
        ranged == SelectSeq(plan, Ranged)
    IN IF Len(plan) >= 1
       THEN <<[kind |-> "notice", count |-> Len(plan),
               ranges |-> [i \in 1..Len(ranged) |-> FormatRange(ranged[i])]]>>
       ELSE <<>>

\* the notice block put before the Markdown when len(chunks) > 1: the count
\* of chunks and the ranges of those that carry one, in chunk order
Notice(plan) ==
    LET Ranged(chunk) == chunk.page_range # NoRange
        ranged == SelectSeq(plan, Ranged)
    IN IF Len(plan) > 1
       THEN <<[kind |-> "notice", count |-> Len(plan),
               ranges |-> [i \in 1..Len(ranged) |-> FormatRange(ranged[i])]]>>
       ELSE <<>>

\* _render_markdown_and_assets: "# {title}", then one "## Page {index + 1}"
\* section per page
Sections(pages) ==
    <<[kind |-> "title"]>>
    \o [i \in 1..Len(pages) |-> [kind |-> "page", heading |-> pages[i].index + 1,
                                  chunk |-> pages[i].chunk, local |-> pages[i].local]]

\* the combined response built after the loop and the Markdown rendered from
\* it (a sequence of blocks), as convert returns them
Stitched(plan, pages) ==
    [pages |-> SortedPages(pages),
     markdown |-> Notice(plan) \o Sections(SortedPages(pages))]

\* convert after its loop: the combined response, rendering, return
Stitch ==
    /\ pc = "stitch"
    /\ IF base_response = 0
       THEN ConvertRaised
       ELSE /\ engine_response' = <<Stitched(chunks, all_pages)>>
            /\ pc' = "write"
            /\ UNCHANGED <<inputs, cursor, mtime, planVars, idx, upload, responses,
                           all_pages, base_response, markdown_parts, retry,
                           cliVars, splitVars>>

\* ---------------------------------- enforce_markdown, write_markdown, count
\* target = output_dir / f"{stem}.md"; target.write_text(...)
Written(out, doc, i) ==
    {f \in out : f.stem # doc.stem} \cup {[stem |-> doc.stem, doc |-> i]}

\* the rest of the loop body: the result is cleaned and written. An error
\* of write_markdown is outside the try and leaves convert() altogether.
WriteMarkdown ==
    /\ pc = "write"
    /\ \E outcome \in {"written", "target_error", "asset_error"} :
         CASE outcome = "written" ->
                /\ files' = Written(files, source_path, cursor)
                /\ metrics' = [metrics EXCEPT !.successes = @ + 1]
                /\ cursor' = cursor + 1
                /\ pc' = "loop"
                /\ EngineIdle
                /\ engine_response' = <<>>
                /\ UNCHANGED <<inputs, mtime, summary>>
           [] outcome = "target_error" ->
                /\ pc' = "crashed"
                /\ UNCHANGED <<inputs, cursor, mtime, planVars, engineVars, retry, cliVars, splitVars>>
           [] outcome = "asset_error" ->
                /\ files' = Written(files, source_path, cursor)
                /\ pc' = "crashed"
                /\ UNCHANGED <<inputs, cursor, mtime, planVars, engineVars, retry,
                               metrics, summary, splitVars>>

\* ------------------------------------------------------- split_by_tokens
\* a segment: the text itself (returned as it came), or the decoding of a
\* window of the tokens
WholeText(toks) == [whole |-> TRUE, window |-> toks]
Decoded(window) == [whole |-> FALSE, window |-> window]

\* tokens[a:b] of the code (0-based, end exclusive)
Slice(toks, a, b) == SubSeq(toks, a + 1, b)

Min(a, b) == IF a <= b THEN a ELSE b

\* SplitBegin with the text returned as it came only under
\* len(tokens) < max_tokens
SplitBeginStrict ==
    /\ pc = "split"
    /\ IF max_tokens <= 0 \/ overlap_tokens < 0 \/ overlap_tokens >= max_tokens
       THEN /\ pc' = "split_error"
            /\ UNCHANGED <<split_start, segments>>
       ELSE IF Len(tokens) < max_tokens
       THEN /\ segments' = <<WholeText(tokens)>>
            /\ pc' = "split_done"
            /\ UNCHANGED split_start
       ELSE /\ segments' = <<>>
            /\ split_start' = 0
            /\ pc' = "split_loop"
    /\ UNCHANGED <<inputs, cursor, mtime, planVars, engineVars, retry, cliVars, tokens>>

\* SplitBegin with the text that fits returned before the budget is checked
SplitBeginFitsFirst ==
    /\ pc = "split"
    /\ IF max_tokens > 0 /\ Len(tokens) <= max_tokens
       THEN /\ segments' = <<WholeText(tokens)>>
            /\ pc' = "split_done"
            /\ UNCHANGED split_start
       ELSE IF max_tokens <= 0 \/ overlap_tokens < 0 \/ overlap_tokens >= max_tokens
       THEN /\ pc' = "split_error"
            /\ UNCHANGED <<split_start, segments>>
       ELSE /\ segments' = <<>>
            /\ split_start' = 0
            /\ pc' = "split_loop"
    /\ UNCHANGED <<inputs, cursor, mtime, planVars, engineVars, retry, cliVars, tokens>>

\* the checks of the budget, the encoding, and the text that fits
SplitBegin ==
    /\ pc = "split"
    /\ IF max_tokens <= 0 \/ overlap_tokens < 0 \/ overlap_tokens >= max_tokens
       THEN /\ pc' = "split_error"
            /\ UNCHANGED <<split_start, segments>>
       ELSE IF Len(tokens) <= max_tokens
       THEN /\ segments' = <<WholeText(tokens)>>
            /\ pc' = "split_done"
            /\ UNCHANGED split_start
       ELSE /\ segments' = <<>>
            /\ split_start' = 0
            /\ pc' = "split_loop"
    /\ UNCHANGED <<inputs, cursor, mtime, planVars, engineVars, retry, cliVars, tokens>>

\* SplitWindow with the next window started at end (the overlap forgotten)
SplitWindowNoOverlap ==
    /\ pc = "split_loop"
    /\ split_start < Len(tokens)
    /\ LET end == Min(split_start + max_tokens, Len(tokens))
           chunk_tokens == Slice(tokens, split_start, end)
       IN /\ segments' = Append(segments, Decoded(chunk_tokens))
          /\ IF end = Len(tokens)
             THEN /\ pc' = "split_done"
                  /\ UNCHANGED split_start
             ELSE /\ split_start' = end
                  /\ pc' = "split_loop"
    /\ UNCHANGED <<inputs, cursor, mtime, planVars, engineVars, retry, cliVars, tokens>>

\* SplitWindow with the next window started one token late
SplitWindowStepOff ==
    /\ pc = "split_loop"
    /\ split_start < Len(tokens)
    /\ LET end == Min(split_start + max_tokens, Len(tokens))
           chunk_tokens == Slice(tokens, split_start, end)
       IN /\ segments' = Append(segments, Decoded(chunk_tokens))
          /\ IF end = Len(tokens)
             THEN /\ pc' = "split_done"
                  /\ UNCHANGED split_start
             ELSE /\ split_start' = end - overlap_tokens + 1
                  /\ pc' = "split_loop"
    /\ UNCHANGED <<inputs, cursor, mtime, planVars, engineVars, retry, cliVars, tokens>>

\* SplitWindow with the next window started max_tokens before end: a full
\* window starts where the last one did
SplitWindowNoAdvance ==
    /\ pc = "split_loop"
    /\ split_start < Len(tokens)
    /\ LET end == Min(split_start + max_tokens, Len(tokens))
           chunk_tokens == Slice(tokens, split_start, end)
       IN /\ segments' = Append(segments, Decoded(chunk_tokens))
          /\ IF end = Len(tokens)
             THEN /\ pc' = "split_done"
                  /\ UNCHANGED split_start
             ELSE /\ split_start' = end - max_tokens
                  /\ pc' = "split_loop"
    /\ UNCHANGED <<inputs, cursor, mtime, planVars, engineVars, retry, cliVars, tokens>>

\* one pass of the while loop
SplitWindow ==
    /\ pc = "split_loop"
    /\ split_start < Len(tokens)
    /\ LET end == Min(split_start + max_tokens, Len(tokens))
           chunk_tokens == Slice(tokens, split_start, end)
       IN /\ segments' = Append(segments, Decoded(chunk_tokens))
          /\ IF end = Len(tokens)
             THEN /\ pc' = "split_done"
                  /\ UNCHANGED split_start
             ELSE /\ split_start' = end - overlap_tokens
                  /\ pc' = "split_loop"
    /\ UNCHANGED <<inputs, cursor, mtime, planVars, engineVars, retry, cliVars, tokens>>

\* ------------------------------------------- SiliconFlowEngine.convert
\* what _extract_content tells apart in a reply of chat.completions.create
Completions == {"text", "blank", "no_choices", "non_text"}

\* the loop over enumerate(chunks, start=1) is entered
FirstChunk ==
    /\ idx' = 1
    /\ markdown_parts' = <<>>
    /\ retry' = RetryEntry(Operation("siliconflow_chunk", 1))
    /\ pc' = "chat"

\* extract_text(path), then _chunk_text up to its call of split_by_tokens;
\* the text is known by the number of tokens left after strip()
ExtractText ==
    /\ pc = "convert"
    /\ engine = "siliconflow"
    /\ \E raised \in BOOLEAN, n \in 0..MaxRunTokens :
         IF raised
         THEN ConvertRaised
         ELSE IF n = 0
         THEN /\ tokens' = <<>>
              /\ split_start' = 0
              /\ segments' = <<WholeText(<<>>)>>
              /\ FirstChunk
              /\ UNCHANGED <<inputs, cursor, mtime, planVars, upload, responses, all_pages,
                             base_response, engine_response, cliVars>>
         ELSE /\ tokens' = [i \in 1..n |-> i]
              /\ pc' = "split"
              /\ UNCHANGED <<inputs, cursor, mtime, planVars, engineVars, retry, cliVars,
                             split_start, segments>>

\* split_by_tokens returned: chunks = self._chunk_text(raw_text)
ChunkText ==
    /\ pc = "split_done"
    /\ FirstChunk
    /\ UNCHANGED <<inputs, cursor, mtime, planVars, upload, responses, all_pages,
                   base_response, engine_response, cliVars, splitVars>>

\* ChunkTextRaises with the planning tried again after a sleep, as a
\* remote call would be
ChunkTextRaisesRetried ==
    /\ pc = "split_error"
    /\ IF retry.attempt < retry_attempts
       THEN /\ retry' = [retry EXCEPT !.attempt = @ + 1,
                                      !.sleeps = Append(@, retry.delay),
                                      !.delay = @ * 2]
            /\ pc' = "split"
            /\ UNCHANGED <<inputs, cursor, mtime, planVars, engineVars, cliVars, splitVars>>
       ELSE ConvertRaised

\* split_by_tokens raised its ValueError, which leaves convert
ChunkTextRaises ==
    /\ pc = "split_error"
    /\ ConvertRaised

\* _compose_markdown: the parts that are not blank, the placeholder when
\* there is none, the notice when chunk_total > 1
ComposeMarkdown(parts, chunk_total) ==
    LET Kept(part) == ~part.blank
        cleaned_parts == SelectSeq(parts, Kept)
        body == IF cleaned_parts # <<>>
                THEN [i \in 1..Len(cleaned_parts) |->
                        [kind |-> "part", chunk |-> cleaned_parts[i].chunk]]
                ELSE <<[kind |-> "placeholder"]>>
        notice == [kind |-> "notice", count |-> chunk_total, ranges |-> <<>>]
    IN [pages |-> <<>>,
        markdown |-> IF chunk_total <= 1 THEN body ELSE <<notice>> \o body]

\* one attempt of chat.completions.create under _request_with_retry; on its
\* return _extract_content, outside the wrapper, then the next chunk or
\* _compose_markdown and the return
ChatAttempt ==
    /\ pc = "chat"
    /\ \E ok \in BOOLEAN, completion \in Completions :
         LET r == RequestWithRetry(retry, retry_attempts, ok, 0)
         IN CASE r.result.kind = "none" ->
                   /\ retry' = r
                   /\ UNCHANGED <<inputs, pc, cursor, mtime, planVars, engineVars, cliVars, splitVars>>
              [] r.result.kind = "error" -> ConvertRaised
              [] r.result.kind = "value" ->
                   IF completion \in {"no_choices", "non_text"}
                   THEN ConvertRaised
                   ELSE /\ markdown_parts' =
                             Append(markdown_parts,
                                    [chunk |-> idx, blank |-> completion = "blank"])
                        /\ IF idx < Len(segments)
                           THEN /\ idx' = idx + 1
                                /\ retry' = RetryEntry(Operation("siliconflow_chunk", idx + 1))
                                /\ pc' = "chat"
                                /\ UNCHANGED engine_response
                           ELSE /\ engine_response' =
                                     <<ComposeMarkdown(markdown_parts', Len(segments))>>
                                /\ retry' = RetryIdle
                                /\ pc' = "write"
                                /\ UNCHANGED idx
                        /\ UNCHANGED <<inputs, cursor, mtime, planVars, upload, responses,
                                       all_pages, base_response, cliVars, splitVars>>

\* ------------------------------------------------- LocalEngine.convert
\* f"# {path.stem}\n\n{text}\n": the heading and the text read, or the
\* placeholder when the text is blank
LocalResponse(blank) ==
    [pages |-> <<>>,
     markdown |-> <<[kind |-> "title"],
                    IF blank THEN [kind |-> "placeholder"]
                    ELSE [kind |-> "part", chunk |-> 1]>>]

\* the whole of convert: the file is read (PdfReader or read_text, which may
\* raise) and wrapped
LocalConvert ==
    /\ pc = "convert"
    /\ engine = "local"
    /\ \E raised \in BOOLEAN, blank \in BOOLEAN :
         IF raised
         THEN ConvertRaised
         ELSE /\ engine_response' = <<LocalResponse(blank)>>
              /\ pc' = "write"
              /\ UNCHANGED <<inputs, cursor, mtime, planVars, idx, upload, responses,
                             all_pages, base_response, markdown_parts, retry,
                             cliVars, splitVars>>

\* ------------------------------------------------------------- the run
\* documents met in a run: a file that is no PDF, or a PDF with up to
\* MaxDocPages pages whose pages all have the same estimate (none, or the
\* largest)
RunShapes ==
    { [suffix |-> "other", total_pages |-> 0, tokens_per_page |-> <<>>] }
    \cup { [suffix |-> "pdf", total_pages |-> n, tokens_per_page |-> [i \in 1..n |-> t]] :
             n \in 0..MaxDocPages, t \in {0, MaxPageTokens} }

\* what path.stat() gives in a run: no file, or a modification time on
\* either side of --since (the time 0 when there is no --since)
RunStats ==
    {NoStat}
    \cup IF since_timestamp.set
         THEN {[missing |-> FALSE, mtime |-> since_timestamp.at - 1],
               [missing |-> FALSE, mtime |-> since_timestamp.at]}
         ELSE {[missing |-> FALSE, mtime |-> 0]}

\* candidates, by the stem of their name (two candidates may share a stem:
\* a.pdf and a.txt, or x/a.pdf and y/a.pdf); stems are numbered in order of
\* first appearance
DocLists ==
    UNION { { d \in [1..n -> [stem : 1..MaxDocs]] :
                \A i \in 1..n : d[i].stem <= i } : n \in 0..MaxDocs }

Idle ==
    /\ cursor = 1
    /\ mtime = NoStat
    /\ total_pages = 0
    /\ tokens_per_page = <<>>
    /\ start = 0
    /\ chunks = <<>>
    /\ idx = 0
    /\ upload = 0
    /\ responses = <<>>
    /\ all_pages = <<>>
    /\ base_response = 0
    /\ engine_response = <<>>
    /\ retry = RetryIdle
    /\ metrics = RunMetrics
    /\ files = {}
    /\ summary = <<>>
    /\ markdown_parts = <<>>
    /\ tokens = <<>>
    /\ split_start = 0
    /\ segments = <<>>

Init ==
    /\ engine \in {"local", "mistral", "siliconflow"}
    /\ docs \in DocLists
    /\ max_pages_per_chunk = MaxPagesPerChunk
    /\ max_pdf_tokens = MaxTokenBudget
    /\ max_tokens = RunWindow
    /\ overlap_tokens \in IF engine = "siliconflow" THEN -1..1 ELSE {1}
    /\ retry_attempts = MaxAttempts
    /\ dry_run \in BOOLEAN
    /\ since_timestamp \in {NoSince, [set |-> TRUE, at |-> 1]}
    /\ pc = "loop"
    /\ Idle

Next ==
    \/ Visit(RunStats)
    \/ PrepareChunksBegin(RunShapes)
    \/ PrepareChunksGroup
    \/ UploadAttempt
    \/ OcrAttempt
    \/ DeleteUpload
    \/ Stitch
    \/ ExtractText
    \/ SplitBegin
    \/ SplitWindow
    \/ ChunkText
    \/ ChunkTextRaises
    \/ ChatAttempt
    \/ LocalConvert
    \/ WriteMarkdown
    \/ Summary

Spec == Init /\ [][Next]_vars

\* ------------------------------- the loop of cli.convert over every stat
\* the loop around the local engine, with every modification time and every
\* --since up to MaxTime
InitLoop ==
    /\ engine = "local"
    /\ docs \in DocLists
    /\ max_pages_per_chunk = 1
    /\ max_pdf_tokens = 0
    /\ max_tokens = 1
    /\ overlap_tokens = 0
    /\ retry_attempts = 1
    /\ dry_run \in BOOLEAN
    /\ since_timestamp \in {NoSince} \cup {[set |-> TRUE, at |-> t] : t \in 0..MaxTime}
    /\ pc = "loop"
    /\ Idle

NextLoop == Visit(Stats) \/ LocalConvert \/ WriteMarkdown \/ Summary

SpecLoop == InitLoop /\ [][NextLoop]_vars

\* ------------------------------------------------- the planner on its own
PlanShapes ==
    { [suffix |-> "other", total_pages |-> 0, tokens_per_page |-> <<>>] }
    \cup UNION { { [suffix |-> "pdf", total_pages |-> n, tokens_per_page |-> t] :
                     t \in [1..n -> 0..MaxPageTokens] } : n \in 0..MaxPlanPages }

InitPlan ==
    /\ engine = "mistral"
    /\ max_tokens = 1
    /\ overlap_tokens = 0
    /\ docs = <<[stem |-> 1]>>
    /\ max_pages_per_chunk \in 1..MaxPagesPerChunk
    /\ max_pdf_tokens \in 0..MaxTokenBudget
    /\ retry_attempts = 1
    /\ dry_run = FALSE
    /\ since_timestamp = NoSince
    /\ pc = "convert"
    /\ Idle

NextPlan == PrepareChunksBegin(PlanShapes) \/ PrepareChunksGroup

SpecPlan == InitPlan /\ [][NextPlan]_vars

\* ------------------------------------------- the retry wrapper on its own
\* the operation names the engines hand to the wrapper
Operations ==
    { Operation(step, i) :
        step \in {"mistral_upload", "mistral_process", "siliconflow_chunk"},
        i \in 1..MaxOpIndex }

\* a caller enters _request_with_retry(func, operation)
RetryCall ==
    /\ pc \in {"retry_idle", "retry_done"}
    /\ \E operation \in Operations : retry' = RetryEntry(operation)
    /\ pc' = "retry"
    /\ UNCHANGED <<inputs, cursor, mtime, planVars, engineVars, cliVars, splitVars>>

\* one pass of its loop around an operation that returns a value or raises
RetryAttempt ==
    /\ pc = "retry"
    /\ \E ok \in BOOLEAN, payload \in 0..MaxOpIndex :
         retry' = RequestWithRetry(retry, retry_attempts, ok, payload)
    /\ pc' = IF retry'.result.kind = "none" THEN "retry" ELSE "retry_done"
    /\ UNCHANGED <<inputs, cursor, mtime, planVars, engineVars, cliVars, splitVars>>

InitRetry ==
    /\ engine = "mistral"
    /\ max_tokens = 1
    /\ overlap_tokens = 0
    /\ docs = <<>>
    /\ max_pages_per_chunk = 1
    /\ max_pdf_tokens = 0
    /\ retry_attempts \in 1..MaxRetryAttempts
    /\ dry_run = FALSE
    /\ since_timestamp = NoSince
    /\ pc = "retry_idle"
    /\ Idle

NextRetry == RetryCall \/ RetryAttempt

SpecRetry == InitRetry /\ [][NextRetry]_vars

InitSplit ==
    /\ engine = "siliconflow"
    /\ markdown_parts = <<>>
    /\ docs = <<>>
    /\ max_pages_per_chunk = 1
    /\ max_pdf_tokens = 0
    /\ retry_attempts = 1
    /\ dry_run = FALSE
    /\ since_timestamp = NoSince
    /\ pc = "split"
    /\ cursor = 1
    /\ mtime = NoStat
    /\ total_pages = 0
    /\ tokens_per_page = <<>>
    /\ start = 0
    /\ chunks = <<>>
    /\ idx = 0
    /\ upload = 0
    /\ responses = <<>>
    /\ all_pages = <<>>
    /\ base_response = 0
    /\ engine_response = <<>>
    /\ retry = RetryIdle
    /\ metrics = RunMetrics
    /\ files = {}
    /\ summary = <<>>
    /\ tokens \in { [i \in 1..n |-> i] : n \in 0..MaxTextTokens }
    /\ max_tokens \in -1..MaxWindow
    /\ overlap_tokens \in -1..MaxWindow
    /\ split_start = 0
    /\ segments = <<>>

NextSplit == SplitBegin \/ SplitWindow

SpecSplit == InitSplit /\ [][NextSplit]_vars

\* ------------------------------------ the two chunkers, run to their end
\* split_by_tokens or _prepare_chunks, called once; a call that has begun
\* takes its next step until it returns or raises
InitChunk == InitSplit \/ InitPlan

\* the documents handed to the planner here: a file that is no PDF, or a
\* PDF of up to MaxPlanPages pages, each without text or with the largest
\* estimate
ChunkShapes ==
    { [suffix |-> "other", total_pages |-> 0, tokens_per_page |-> <<>>] }
    \cup UNION { { [suffix |-> "pdf", total_pages |-> n, tokens_per_page |-> t] :
                     t \in [1..n -> {0, MaxPageTokens}] } : n \in 0..MaxPlanPages }

NextChunk ==
    \/ SplitBegin
    \/ SplitWindow
    \/ PrepareChunksBegin(ChunkShapes)
    \/ PrepareChunksGroup

SpecChunk == InitChunk /\ [][NextChunk]_vars /\ WF_vars(NextChunk)

\* ======================================================== properties
\* the plan has been returned by _prepare_chunks
PlanReturned == pc \in {"upload", "ocr", "delete", "stitch", "write"}

\* the pages a chunk's range names
RangePages(chunk) ==
    IF chunk.page_range = NoRange THEN {}
    ELSE chunk.page_range[1]..chunk.page_range[2]

\* the estimates of the pages of a chunk, summed
ChunkTokens(chunk) ==
    SeqSum([i \in 1..Cardinality(RangePages(chunk)) |->
               tokens_per_page[chunk.page_range[1] + i - 1]])

\* C2: for a document with P >= 1 pages the planned chunks carry page ranges
\* that are pairwise disjoint, strictly ascending in chunk order, and whose
\* union is exactly 1..P
PlanCoversEveryPageOnce ==
    (PlanReturned /\ total_pages >= 1) =>
        /\ \A i \in 1..Len(chunks) :
             /\ chunks[i].page_range # NoRange
             /\ chunks[i].page_range[1] <= chunks[i].page_range[2]
        /\ \A i, j \in 1..Len(chunks) :
             i < j => /\ RangePages(chunks[i]) \cap RangePages(chunks[j]) = {}
                      /\ chunks[i].page_range[2] < chunks[j].page_range[1]
        /\ UNION {RangePages(chunks[i]) : i \in 1..Len(chunks)} = 1..total_pages

\* a five-page document planned as three chunks
PlanCoversWitness ==
    /\ PlanReturned
    /\ total_pages = 5
    /\ Len(chunks) = 3
    /\ chunks[2].page_range[2] > chunks[2].page_range[1]

\* C9, as claimed: every planned chunk of more than one page has a sum of
\* per-page token estimates of at most max_pdf_tokens
MultiPageChunkWithinTokenCeiling ==
    (PlanReturned /\ total_pages >= 1) =>
        \A i \in 1..Len(chunks) :
            Cardinality(RangePages(chunks[i])) > 1 =>
                ChunkTokens(chunks[i]) <= max_pdf_tokens

\* C10: every planned chunk of a paginated document holds at least one page
\* and at most max_pages_per_chunk pages
ChunkWithinPageCeiling ==
    (PlanReturned /\ total_pages >= 1) =>
        \A i \in 1..Len(chunks) :
            /\ Cardinality(RangePages(chunks[i])) >= 1
            /\ Cardinality(RangePages(chunks[i])) <= max_pages_per_chunk
            /\ ~chunks[i].data.original =>
                 /\ Len(chunks[i].data.pages) = Cardinality(RangePages(chunks[i]))
                 /\ \A k \in 1..Len(chunks[i].data.pages) :
                      chunks[i].data.pages[k] = chunks[i].page_range[1] + k - 1

\* a plan of several chunks whose first is closed by the page ceiling, the
\* token ceiling not reached
PageCeilingWitness ==
    /\ PlanReturned
    /\ Len(chunks) >= 2
    /\ max_pages_per_chunk >= 2
    /\ Cardinality(RangePages(chunks[1])) = max_pages_per_chunk
    /\ ChunkTokens(chunks[1]) < max_pdf_tokens

\* the windows with the overlap discounted: the first whole, each later one
\* without its first overlap_tokens tokens, concatenated in order
Reassembled(segs, overlap) ==
    LET F[i \in 0..Len(segs)] ==
            IF i = 0 THEN <<>>
            ELSE IF i = 1 THEN segs[1].window
            ELSE F[i - 1] \o SubSeq(segs[i].window, overlap + 1, Len(segs[i].window))
    IN F[Len(segs)]

\* C3: the windows split_by_tokens returns lose nothing: with the overlap
\* discounted they give back the token sequence, each token once
SplitLosesNothing ==
    pc = "split_done" => Reassembled(segments, overlap_tokens) = tokens

\* a text cut into at least three windows that overlap
SplitLosesNothingWitness ==
    /\ pc = "split_done"
    /\ Len(segments) >= 3
    /\ overlap_tokens >= 2
    /\ Len(tokens) = MaxTextTokens

\* C4: with retry_attempts = N the wrapper invokes the operation min(k, N)
\* times, k the first call that succeeds: a returned value is that of the
\* last call made, the only one that succeeded, and that call is within N;
\* the aggregate error comes after exactly N calls that all failed, names the
\* operation and wraps the failure of call N; while neither has happened,
\* fewer than N calls were made and all of them failed
RetryInvokesUntilFirstSuccess ==
    LET n == Len(retry.calls)
    IN /\ retry.result.kind = "value" =>
            /\ 1 <= n /\ n <= retry_attempts
            /\ retry.calls[n]
            /\ \A j \in 1..(n - 1) : ~retry.calls[j]
            /\ retry.result.call = n
       /\ retry.result.kind = "error" =>
            /\ n = retry_attempts
            /\ \A j \in 1..n : ~retry.calls[j]
            /\ retry.result.operation = retry.operation
            /\ retry.result.attempts = retry_attempts
            /\ retry.result.cause = Exc(retry.operation, retry_attempts)
       /\ retry.result.kind = "none" =>
            /\ n < retry_attempts
            /\ \A j \in 1..n : ~retry.calls[j]
            /\ retry.attempt = n + 1

\* an operation that failed once and then succeeded, on the last attempt
RetryWitness ==
    /\ pc = "retry_done"
    /\ retry_attempts = 2
    /\ retry.result.kind = "value"
    /\ retry.calls = <<FALSE, TRUE>>

\* the global indices of a page list are exactly 0..N-1, in order
Dense(pages) == \A k \in 1..Len(pages) : pages[k].index = k - 1

\* C1, as claimed: a response that convert returns has the global page
\* indices 0..N-1 (anything else would have been raised as an error)
StitchedPagesAlwaysDense ==
    engine_response # <<>> => Dense(engine_response[1].pages)

\* C5, as claimed: the run never stops on a document: a run that has
\* stopped has visited every candidate and logged its summary
RunOutlivesEveryDocument ==
    pc \in {"done", "crashed"} =>
        /\ metrics.total_candidates = Len(docs)
        /\ summary # <<>>

\* the engine is converting source_path
Converting ==
    pc \in {"convert", "plan", "upload", "ocr", "delete", "stitch",
            "split", "split_loop", "split_done", "split_error", "chat"}

\* this step is convert raising. MistralEngine: the document cannot be
\* opened, a page group cannot be serialized, the upload's last attempt
\* fails, the finally clause has run after the OCR call was exhausted, or
\* no chunk gave a response. SiliconFlowEngine: extract_text raises, the
\* token budget is rejected, the chat call's last attempt fails or its
\* reply has no text. LocalEngine: the file cannot be read
ConvertRaises ==
    \/ pc = "upload" /\ retry.attempt = retry_attempts /\ pc' # "ocr"
    \/ pc = "delete" /\ retry.result.kind = "error"
    \/ pc = "stitch" /\ base_response = 0
    \/ pc = "convert" /\ engine = "mistral" /\ pc' \notin {"plan", "upload"}
    \/ pc = "plan" /\ pc' \notin {"plan", "upload"}
    \/ pc = "convert" /\ engine = "siliconflow" /\ pc' \notin {"split", "chat"}
    \/ pc = "convert" /\ engine = "local" /\ pc' # "write"
    \/ pc = "split_error"
    \/ pc = "chat" /\ pc' \notin {"chat", "write"}

\* C6: when convert raises for a document, failures grows by exactly one,
\* the other counters and the output files stay as they are, and the loop
\* goes on to the next candidate
EngineFailureCountedOnce ==
    [][ConvertRaises =>
          /\ metrics' = [metrics EXCEPT !.failures = @ + 1]
          /\ files' = files
          /\ cursor' = cursor + 1
          /\ pc' = "loop"]_vars

\* the first document failed and the second is being converted
EngineFailureWitness ==
    /\ metrics.failures = 1
    /\ metrics.total_candidates = 2
    /\ files = {}
    /\ cursor = 2
    /\ pc = "ocr"

\* every chunk of the document at hand has its response and the engine has
\* returned their combination
AllChunksStitched ==
    IF engine = "mistral"
    THEN /\ Len(responses) = Len(chunks)
         /\ engine_response = <<Stitched(chunks, all_pages)>>
    ELSE IF engine = "siliconflow"
    THEN /\ Len(markdown_parts) = Len(segments)
         /\ engine_response = <<ComposeMarkdown(markdown_parts, Len(segments))>>
    ELSE \E blank \in BOOLEAN : engine_response = <<LocalResponse(blank)>>

\* C7: an output file appears only in the step that writes the stitched
\* response of the document at hand, after every chunk of its plan has
\* returned a response; while the document is being converted it has no file
WrittenOnlyAfterStitch ==
    [][/\ files' # files =>
            /\ pc = "write"
            /\ AllChunksStitched
            /\ files' = Written(files, source_path, cursor)
       /\ Converting' => \A f \in files' : f.doc # cursor']_vars

\* the first document has been converted and written, and the loop is back
\* at its head
WrittenOnlyAfterStitchWitness ==
    /\ pc = "loop"
    /\ cursor = 2
    /\ files = {[stem |-> docs[1].stem, doc |-> 1]}
    /\ metrics.successes = 1

\* every chunk carries a page range and its response holds exactly the
\* pages of the range
WellFormedResponses ==
    /\ engine = "mistral"
    /\ Len(responses) = Len(chunks)
    /\ \A i \in 1..Len(chunks) :
         /\ chunks[i].page_range # NoRange
         /\ responses[i] = DeclaredPages(chunks[i])

\* C8: with well-formed responses the k-th page of a chunk with range
\* (first, last) has global index first - 1 + k, and the stitched response
\* lists the indices 0..N-1 in ascending order
WellFormedResponsesStitchDense ==
    (engine_response # <<>> /\ WellFormedResponses) =>
        LET pages == engine_response[1].pages
        IN /\ Len(pages) = total_pages
           /\ Dense(pages)
           /\ \A j \in 1..Len(pages) :
                pages[j].index = chunks[pages[j].chunk].page_range[1] - 1 + pages[j].local
           /\ \A i \in 1..Len(chunks) :
                \A k \in 0..(responses[i] - 1) :
                    \E j \in 1..Len(pages) :
                        /\ pages[j].chunk = i
                        /\ pages[j].local = k
                        /\ pages[j].index = chunks[i].page_range[1] - 1 + k

\* ranges (1,3), (4,6) with three pages each, stitched to 0..5
StitchDenseWitness ==
    /\ pc = "write"
    /\ Len(chunks) = 2
    /\ chunks[1].page_range = <<1, 3>>
    /\ chunks[2].page_range = <<4, 6>>
    /\ responses = <<3, 3>>
    /\ [j \in 1..6 |-> engine_response[1].pages[j].index] = <<0, 1, 2, 3, 4, 5>>

\* C11, as claimed: a page whose own token estimate exceeds max_pdf_tokens
\* is the only page of the chunk that contains it, wherever it sits
OversizedPageEmittedAlone ==
    (PlanReturned /\ total_pages >= 1) =>
        \A p \in 1..total_pages :
            tokens_per_page[p] > max_pdf_tokens =>
                \E i \in 1..Len(chunks) : chunks[i].page_range = <<p, p>>

\* ceil(a / b) for b > 0
CeilDiv(a, b) == (a + b - 1) \div b

\* the tokens two windows have in common (tokens are told apart by position)
Shared(w1, w2) ==
    {w1[j] : j \in 1..Len(w1)} \cap {w2[j] : j \in 1..Len(w2)}

\* C12: a text of n > max_tokens tokens is cut into exactly
\* ceil((n - overlap_tokens) / (max_tokens - overlap_tokens)) windows; window
\* i (from 0) is the token range that starts at i * (max_tokens -
\* overlap_tokens) and holds at most max_tokens tokens; a window shares
\* exactly its last overlap_tokens tokens with the next one; the last window
\* ends at the final token
SplitWindowsCountedAndPlaced ==
    (pc = "split_done" /\ Len(tokens) > max_tokens) =>
        LET n == Len(tokens)
            step == max_tokens - overlap_tokens
            k == Len(segments)
        IN /\ k = CeilDiv(n - overlap_tokens, step)
           /\ \A i \in 1..k :
                /\ segments[i] =
                     Decoded(Slice(tokens, (i - 1) * step,
                                   Min((i - 1) * step + max_tokens, n)))
                /\ Len(segments[i].window) <= max_tokens
                /\ Len(segments[i].window) >= 1
           /\ \A i \in 1..(k - 1) :
                LET w1 == segments[i].window
                    w2 == segments[i + 1].window
                IN /\ Cardinality(Shared(w1, w2)) = overlap_tokens
                   /\ SubSeq(w1, Len(w1) - overlap_tokens + 1, Len(w1))
                        = SubSeq(w2, 1, overlap_tokens)
           /\ segments[k].window[Len(segments[k].window)] = tokens[n]

\* 25 tokens, max_tokens = 10, overlap_tokens = 3: four windows
SplitWindowsWitness ==
    /\ pc = "split_done"
    /\ Len(tokens) = 25
    /\ max_tokens = 10
    /\ overlap_tokens = 3
    /\ Len(segments) = 4
    /\ segments[4].window = <<22, 23, 24, 25>>

RECURSIVE Pow2(_)
Pow2(e) == IF e <= 0 THEN 1 ELSE 2 * Pow2(e - 1)

\* C13: the wrapper sleeps once after each failed attempt but the last, the
\* i-th sleep lasting base * 2^(i-1) with nothing added; it does not sleep
\* after the final failed attempt nor after a success
RetrySleepsBetweenAttemptsDoubling ==
    LET n == Len(retry.calls)
        failed == Cardinality({j \in 1..n : ~retry.calls[j]})
    IN /\ \A i \in 1..Len(retry.sleeps) :
            retry.sleeps[i] = RetryBackoff * Pow2(i - 1)
       /\ retry.result.kind = "none" => Len(retry.sleeps) = n
       /\ retry.result.kind = "value" =>
            /\ Len(retry.sleeps) = n - 1
            /\ Len(retry.sleeps) = failed
       /\ retry.result.kind = "error" =>
            /\ Len(retry.sleeps) = retry_attempts - 1
            /\ Len(retry.sleeps) = failed - 1

\* attempts = 3, two failures and a success: base + 2 * base slept in all
RetrySleepsWitness ==
    /\ pc = "retry_done"
    /\ retry_attempts = 3
    /\ retry.calls = <<FALSE, FALSE, TRUE>>
    /\ retry.result.kind = "value"
    /\ retry.sleeps = <<RetryBackoff, 2 * RetryBackoff>>
    /\ SeqSum(retry.sleeps) = 3 * RetryBackoff

\* C14, as claimed: convert gives a chunk up only after retry_attempts calls
\* of the remote operation, whatever made the calls fail (a reply without
\* choices or without text included)
EveryCallFailureRetried ==
    [][(pc = "chat" /\ pc' \notin {"chat", "write"}) =>
           Len(retry.calls) + 1 = retry_attempts]_vars

\* C15: in dry-run mode no step enters the engine or writes: control stays
\* at the head of the loop, no file exists, successes and failures stay 0,
\* and a visit adds one to dry_run exactly when the candidate passed the
\* since filter
DryRunConvertsNothing ==
    [][dry_run =>
          /\ pc' \in {"loop", "done"}
          /\ engine_response' = <<>>
          /\ retry' = RetryIdle
          /\ files' = {}
          /\ metrics'.successes = 0
          /\ metrics'.failures = 0
          /\ cursor' # cursor =>
               metrics'.dry_run = metrics.dry_run
                   + (IF ShouldProcess(mtime', since_timestamp) THEN 1 ELSE 0)]_vars

\* a dry run over two candidates, one older than --since, has ended
DryRunWitness ==
    /\ dry_run
    /\ since_timestamp.set
    /\ pc = "done"
    /\ metrics = [RunMetrics EXCEPT !.total_candidates = 2,
                                    !.skipped_by_since = 1, !.dry_run = 1]
    /\ files = {}

\* C16: the visit of a candidate that exists is decided by its modification
\* time alone. Earlier than --since: it is skipped, skipped_by_since (and the
\* count of candidates) grows by one, nothing else is counted, the engine is
\* not entered and no file changes. Equal or later, or no --since at all: it
\* is processed (handed to the engine, or counted as dry-run under --dry-run)
SinceFilterByMtimeAlone ==
    [][(pc = "loop" /\ cursor <= Len(docs) /\ ~mtime'.missing) =>
          IF since_timestamp.set /\ mtime'.mtime < since_timestamp.at
          THEN /\ metrics' = [metrics EXCEPT !.total_candidates = @ + 1,
                                             !.skipped_by_since = @ + 1]
               /\ pc' = "loop"
               /\ cursor' = cursor + 1
               /\ files' = files
               /\ engine_response' = <<>>
          ELSE /\ metrics'.skipped_by_since = metrics.skipped_by_since
               /\ files' = files
               /\ IF dry_run
                  THEN /\ metrics'.dry_run = metrics.dry_run + 1
                       /\ pc' = "loop"
                  ELSE /\ metrics'.dry_run = metrics.dry_run
                       /\ pc' = "convert"
                       /\ cursor' = cursor]_vars

\* --since 1: the first candidate, modified at 0, was skipped and the
\* second, modified at 1, is handed to the engine
SinceFilterWitness ==
    /\ since_timestamp = [set |-> TRUE, at |-> 1]
    /\ ~dry_run
    /\ cursor = 2
    /\ pc = "convert"
    /\ mtime = [missing |-> FALSE, mtime |-> 1]
    /\ metrics = [RunMetrics EXCEPT !.total_candidates = 2, !.skipped_by_since = 1]

\* the chunks the engine used for the document at hand
ChunkCount ==
    IF engine = "mistral" THEN Len(chunks)
    ELSE IF engine = "siliconflow" THEN Len(segments)
    ELSE 1

\* what a conversion without chunking renders from the one response
Unchunked ==
    IF engine = "mistral"
    THEN <<[kind |-> "title"]>>
         \o [k \in 1..responses[1] |->
               [kind |-> "page", heading |-> k, chunk |-> 1, local |-> k - 1]]
    ELSE IF markdown_parts[1].blank
    THEN <<[kind |-> "placeholder"]>>
    ELSE <<[kind |-> "part", chunk |-> 1]>>

OneFilePerConvertedDocument ==
    pc \in {"loop", "done"} =>
        /\ Cardinality(files) = metrics.successes
        /\ \A f \in files : docs[f.doc].stem = f.stem

\* C19: planning hands over nothing but a complete plan. A step that leaves
\* the planning loop without a plan (a page group could not be serialized)
\* ends the conversion of the document: the groups serialized so far are
\* dropped, nothing was uploaded or sent to OCR for it, no file changes, the
\* failure is counted and the loop moves on. A step that leaves it for the
\* first upload carries chunks for every page of the document
SerializationFailureAbortsDocument ==
    [][pc = "plan" =>
          /\ upload = 0
          /\ retry = RetryIdle
          /\ responses = <<>>
          /\ pc' \notin {"plan", "upload"} =>
               /\ pc' = "loop"
               /\ chunks' = <<>>
               /\ upload' = 0
               /\ retry' = RetryIdle
               /\ engine_response' = <<>>
               /\ files' = files
               /\ metrics' = [metrics EXCEPT !.failures = @ + 1]
               /\ cursor' = cursor + 1
          /\ pc' = "upload" =>
               UNION {RangePages(chunks'[i]) : i \in 1..Len(chunks')} = 1..total_pages]_vars

\* two page groups have been serialized and a third is to follow; nothing
\* has been uploaded
SerializationWitness ==
    /\ pc = "plan"
    /\ Len(chunks) = 2
    /\ start < total_pages
    /\ upload = 0
    /\ retry = RetryIdle

\* C20: once split_by_tokens is past its checks, a text of at most
\* max_tokens tokens under a valid overlap_tokens has been returned as the
\* one segment, the text itself and no decoding of its tokens
SplitPassesShortTextThrough ==
    (/\ pc \in {"split_error", "split_loop", "split_done"}
     /\ max_tokens > 0
     /\ 0 <= overlap_tokens /\ overlap_tokens < max_tokens
     /\ Len(tokens) <= max_tokens) =>
        /\ pc = "split_done"
        /\ segments = <<WholeText(tokens)>>

\* a text of exactly max_tokens tokens, with an overlap, came back whole
SplitPassthroughWitness ==
    /\ pc = "split_done"
    /\ Len(tokens) = max_tokens
    /\ max_tokens >= 2
    /\ overlap_tokens >= 1
    /\ segments = <<WholeText(tokens)>>

\* C21: split_by_tokens rejects every invalid budget, whatever the text:
\* with max_tokens <= 0, overlap_tokens < 0 or overlap_tokens >= max_tokens
\* it has raised once it is past its checks, and no segment was returned
SplitRejectsInvalidBudget ==
    (/\ pc \in {"split_error", "split_loop", "split_done"}
     /\ (max_tokens <= 0 \/ overlap_tokens < 0 \/ overlap_tokens >= max_tokens)) =>
        /\ pc = "split_error"
        /\ segments = <<>>

\* a text of one token, which would fit, rejected for overlap_tokens =
\* max_tokens
SplitRejectsWitness ==
    /\ pc = "split_error"
    /\ Len(tokens) = 1
    /\ max_tokens = 5
    /\ overlap_tokens = 5
    /\ segments = <<>>

\* the step in which a chunk's remote call, out of attempts, makes convert
\* raise: the upload's or the chat call's last attempt has failed, or the
\* finally clause has run after the OCR call's last attempt failed
RetriesExhausted ==
    \/ pc = "upload" /\ retry.attempt = retry_attempts /\ pc' # "ocr"
    \/ pc = "delete" /\ retry.result.kind = "error"
    \/ pc = "chat" /\ retry.attempt = retry_attempts /\ pc' \notin {"chat", "write"}

\* C22: when the retries of a chunk are exhausted the document fails as a
\* whole. The OCR call's last failure leads to the cleanup of the same
\* chunk and nothing else; the step that raises leaves the document with no
\* further chunk entered, no response returned by the engine, no file
\* changed, exactly one failure counted and the loop at the next candidate
ExhaustedChunkFailsDocument ==
    [][/\ (pc = "ocr" /\ retry'.result.kind = "error") =>
            /\ pc' = "delete"
            /\ idx' = idx
            /\ responses' = responses
            /\ engine_response' = <<>>
            /\ metrics' = metrics
       /\ RetriesExhausted =>
            /\ pc' = "loop"
            /\ cursor' = cursor + 1
            /\ idx' = 0
            /\ retry' = RetryIdle
            /\ responses' = <<>>
            /\ all_pages' = <<>>
            /\ engine_response' = <<>>
            /\ files' = files
            /\ metrics' = [metrics EXCEPT !.failures = @ + 1]]_vars

\* the OCR call of the second of three chunks is out of attempts, the first
\* chunk's response in hand
ExhaustedChunkWitness ==
    /\ pc = "delete"
    /\ retry.result.kind = "error"
    /\ Len(chunks) = 3
    /\ idx = 2
    /\ Len(responses) = 1
    /\ base_response = 1

\* a remote call (upload, OCR, delete, chat completion) is made from here
RemoteCall == pc \in {"upload", "ocr", "delete", "chat"}

\* C23: dispatch is sequential and ascending. Every remote call is made for
\* the chunk at hand, under the operation numbered with its index, and only
\* when every earlier candidate has been counted in an outcome; the chunk at
\* hand changes only from none to the first, to the next one once the calls
\* of the current chunk are over (its OCR response returned and its upload
\* deleted, or its completion returned), or to none when the document is left
DispatchSequentialAscending ==
    [][/\ RemoteCall =>
            /\ 1 <= idx /\ idx <= ChunkCount
            /\ retry.operation.index = idx
            /\ metrics.total_candidates = cursor
            /\ metrics.skipped_by_since + metrics.dry_run + metrics.successes
                 + metrics.failures = cursor - 1
       /\ idx' # idx =>
            \/ /\ idx = 0
               /\ idx' = 1
               /\ pc \in {"convert", "plan", "split_done"}
            \/ /\ idx' = idx + 1
               /\ \/ pc = "delete" /\ retry.result.kind = "value"
                  \/ pc = "chat" /\ Len(markdown_parts') = idx
               /\ upload' = 0
               /\ retry' = RetryEntry(Operation(IF engine = "mistral"
                                                THEN "mistral_upload"
                                                ELSE "siliconflow_chunk", idx'))
            \/ /\ idx' = 0
               /\ pc' = "loop"
               /\ cursor' = cursor + 1]_vars

\* the second document's second chunk is being uploaded again after a
\* failed attempt, the first document written
DispatchWitness ==
    /\ pc = "upload"
    /\ cursor = 2
    /\ metrics.successes = 1
    /\ idx = 2
    /\ Len(responses) = 1
    /\ retry.calls = <<FALSE>>
    /\ retry.operation = Operation("mistral_upload", 2)

\* planning (page grouping, token splitting with its budget checks) or
\* stitching is under way
PlanningOrStitching ==
    pc \in {"convert", "plan", "split", "split_loop", "split_error", "stitch"}

\* C24: only the remote call is retried. Planning and stitching run outside
\* the retry wrapper and leave it untouched (no attempt counted, no sleep);
\* each is entered once per conversion (planning from the visit of the
\* candidate, stitching after the last chunk) and never again for it; an
\* error in either is the step that leaves the document, counted as its
\* failure
PlanningAndStitchingNeverRetried ==
    [][/\ PlanningOrStitching =>
            /\ retry = RetryIdle
            /\ retry'.calls = <<>>
            /\ retry'.sleeps = <<>>
            /\ retry'.attempt = 1
       /\ pc' = "convert" => pc = "loop" /\ cursor' = cursor
       /\ pc' = "plan" => pc \in {"convert", "plan"}
       /\ pc' = "split" => pc = "convert"
       /\ pc' = "split_loop" => pc \in {"split", "split_loop"}
       /\ pc' = "split_error" => pc = "split"
       /\ pc' = "stitch" => pc \in {"convert", "plan", "delete"}
       /\ pc = "stitch" => pc' \in {"write", "loop"}
       /\ pc = "split_error" => pc' = "loop"
       /\ (PlanningOrStitching /\ pc' = "loop") =>
            /\ cursor' = cursor + 1
            /\ metrics' = [metrics EXCEPT !.failures = @ + 1]
            /\ engine_response' = <<>>]_vars

\* split_by_tokens has rejected the budget of an engine that has two
\* attempts for each remote call; the wrapper was not entered
PlanningErrorWitness ==
    /\ pc = "split_error"
    /\ retry_attempts = 2
    /\ overlap_tokens < 0
    /\ retry = RetryIdle
    /\ metrics.failures = 0

\* C25: the uploaded file of a chunk is deleted once, after the OCR step.
\* An upload exists from the successful call of files.upload until the
\* delete; the delete is reached from the OCR step alone, when that step has
\* returned or is out of attempts, and is left at once with the upload gone;
\* what follows depends on the OCR step alone (its response taken into the
\* document, or the conversion failed), not on the delete; an upload out of
\* attempts leaves the document with neither OCR nor delete
UploadDeletedOnceAfterOcr ==
    [][/\ upload' # upload =>
            \/ pc = "upload" /\ upload = 0 /\ pc' = "ocr"
            \/ pc = "delete" /\ upload # 0 /\ upload' = 0
       /\ pc = "upload" =>
            /\ upload = 0
            /\ pc' \in {"upload", "ocr", "loop"}
            /\ pc' = "loop" =>
                 /\ Len(retry.calls) + 1 = retry_attempts
                 /\ upload' = 0
       /\ pc = "ocr" =>
            /\ upload # 0
            /\ upload' = upload
            /\ pc' \in {"ocr", "delete"}
            /\ pc' = "delete" <=> retry'.result.kind # "none"
       /\ pc' = "delete" => pc = "ocr"
       /\ pc = "delete" =>
            /\ upload # 0
            /\ retry.operation = Operation("mistral_process", idx)
            /\ upload' = 0
            /\ IF retry.result.kind = "value"
               THEN /\ pc' \in {"upload", "stitch"}
                    /\ responses' = Append(responses, retry.result.payload)
                    /\ metrics' = metrics
               ELSE /\ pc' = "loop"
                    /\ metrics' = [metrics EXCEPT !.failures = @ + 1]]_vars

\* the OCR step of a chunk has returned on its second attempt and the
\* upload, made by the second call of files.upload, is still to be deleted
UploadDeletedWitness ==
    /\ pc = "delete"
    /\ upload = 2
    /\ retry.result.kind = "value"
    /\ retry.calls = <<FALSE, TRUE>>

\* the four outcome counters, summed
Outcomes(m) == m.skipped_by_since + m.dry_run + m.successes + m.failures

\* C26: the counters partition the candidates. No counter ever decreases;
\* the step that ends the handling of a candidate adds one to exactly one
\* outcome counter; between candidates and at the end total_candidates is
\* the number of candidates handled and the sum of the four outcome
\* counters; the summary's eligible is dry_run + converted + failed
CountersPartitionCandidates ==
    [][/\ metrics'.total_candidates >= metrics.total_candidates
       /\ metrics'.skipped_by_since >= metrics.skipped_by_since
       /\ metrics'.dry_run >= metrics.dry_run
       /\ metrics'.successes >= metrics.successes
       /\ metrics'.failures >= metrics.failures
       /\ Outcomes(metrics') - Outcomes(metrics) =
            (IF cursor' = cursor + 1 THEN 1 ELSE 0)
       /\ pc' \in {"loop", "done"} =>
            /\ metrics'.total_candidates = cursor' - 1
            /\ metrics'.total_candidates = Outcomes(metrics')
       /\ summary' # <<>> =>
            /\ summary'[1].total = Len(docs)
            /\ summary'[1].eligible = summary'[1].dry_run + summary'[1].converted
                                        + summary'[1].failed
            /\ summary'[1].total - summary'[1].skipped_since = summary'[1].eligible]_vars

\* a run over two candidates, one skipped and one failed, has logged its
\* summary
CountersWitness ==
    /\ pc = "done"
    /\ summary # <<>>
    /\ summary[1].total = 2
    /\ summary[1].skipped_since = 1
    /\ summary[1].failed = 1
    /\ summary[1].eligible = 1

\* all_pages after the responses were merged in the order perm of the
\* chunks
MergedIn(perm) ==
    LET F[i \in 0..Len(perm)] ==
            IF i = 0 THEN <<>>
            ELSE Reindexed(F[i - 1], chunks[perm[i]], perm[i], responses[perm[i]])
    IN F[Len(perm)]

\* the orders in which the chunks of the document at hand can be merged
MergeOrders ==
    {perm \in [1..Len(chunks) -> 1..Len(chunks)] :
        \A i, j \in 1..Len(chunks) : i # j => perm[i] # perm[j]}

\* C27: with chunks that all carry a page range and responses that hold
\* exactly the pages of their range, merging the responses in any order and
\* stitching gives the page sequence and the sections convert returned, and
\* these are in strictly ascending global index
StitchIndependentOfMergeOrder ==
    (engine_response # <<>> /\ WellFormedResponses) =>
        LET pages == engine_response[1].pages
        IN /\ \A perm \in MergeOrders :
                /\ SortedPages(MergedIn(perm)) = pages
                /\ Notice(chunks) \o Sections(SortedPages(MergedIn(perm)))
                     = engine_response[1].markdown
           /\ \A j \in 1..(Len(pages) - 1) : pages[j].index < pages[j + 1].index
           /\ \A j \in 1..Len(pages) :
                engine_response[1].markdown[Len(Notice(chunks)) + 1 + j].heading
                    = pages[j].index + 1

\* three chunks stitched; merged last chunk first, the pages arrive in
\* another order than the one returned
MergeOrderWitness ==
    /\ pc = "write"
    /\ WellFormedResponses
    /\ Len(chunks) = 3
    /\ MergedIn(<<3, 1, 2>>) # engine_response[1].pages
    /\ MergedIn(<<3, 1, 2>>)[1].index > MergedIn(<<3, 1, 2>>)[Len(all_pages)].index
    /\ SortedPages(MergedIn(<<3, 1, 2>>)) = engine_response[1].pages

\* C28, as claimed: in a run without --since skipped_by_since stays 0, so
\* eligible is total_candidates and every candidate handled is dry-run,
\* converted or failed
NoSinceNothingSkipped ==
    ~since_timestamp.set =>
        /\ metrics.skipped_by_since = 0
        /\ Eligible(metrics) = metrics.total_candidates
        /\ pc \in {"loop", "done"} =>
             metrics.total_candidates
                 = metrics.dry_run + metrics.successes + metrics.failures

\* the chunker has returned (split_by_tokens, _prepare_chunks) or raised
ChunkerEnded == pc \in {"split_done", "split_error", "upload", "loop"}

\* C29: chunking ends, and with a plan that is not empty. Every pass of the
\* loop of split_by_tokens that is not the last moves start forward by
\* max_tokens - overlap_tokens >= 1 and keeps it inside the text; every pass
\* of the planner's loop consumes at least one page and adds one chunk
\* (whatever the budget and the pages' estimates); each call ends after
\* finitely many steps; what it returns holds at least one segment or chunk,
\* and at most one per token or page; a valid budget is never rejected
ChunkingTerminatesNonEmpty ==
    /\ [][/\ (pc = "split_loop" /\ pc' = "split_loop") =>
               /\ split_start' = split_start + (max_tokens - overlap_tokens)
               /\ split_start' >= split_start + 1
               /\ split_start' < Len(tokens)
               /\ Len(segments') = Len(segments) + 1
          /\ (pc = "plan" /\ pc' \in {"plan", "upload"}) =>
               /\ start' >= start + 1
               /\ start' <= total_pages
               /\ Len(chunks') = Len(chunks) + 1]_vars
    /\ [](pc = "split_done" =>
            /\ Len(segments) >= 1
            /\ Len(tokens) >= 1 => Len(segments) <= Len(tokens))
    /\ [](pc = "upload" =>
            /\ Len(chunks) >= 1
            /\ total_pages >= 1 => Len(chunks) <= total_pages)
    /\ [](pc = "split_error" =>
            (max_tokens <= 0 \/ overlap_tokens < 0 \/ overlap_tokens >= max_tokens))
    /\ <>ChunkerEnded

\* a budget of 0 tokens, which every page reaches: the planner has
\* returned a document of five pages as five chunks
ChunkingWitness ==
    /\ pc = "upload"
    /\ max_pdf_tokens = 0
    /\ max_pages_per_chunk = MaxPagesPerChunk
    /\ total_pages = 5
    /\ SeqSum(tokens_per_page) > 0
    /\ Len(chunks) = 5

\* the order in which a document's operations are handed to the wrapper:
\* by chunk, the upload of a chunk before its OCR call
OperationBefore(a, b) ==
    \/ a.index < b.index
    \/ /\ a.index = b.index
       /\ a.step = "mistral_upload"
       /\ b.step = "mistral_process"

\* C30: retry state is local to a call of the wrapper. A step that hands a
\* new operation to the wrapper starts it at attempt 1 with the base delay
\* and nothing invoked or slept, whatever the call before it spent; within a
\* call each step is one invocation, the attempt is one more than the
\* invocations made, at most retry_attempts are made and the delay is the
\* base doubled once per sleep; within a document the operations come in
\* strictly ascending order, the first for chunk 1 and none beyond the last
\* chunk, so each operation of each chunk gets one call of the wrapper and a
\* document of C chunks at most C * retry_attempts invocations of each
RetryStateLocalToCall ==
    [][/\ (retry'.operation # retry.operation /\ retry'.operation # NoOperation) =>
            /\ retry' = RetryEntry(retry'.operation)
            /\ retry'.attempt = 1
            /\ retry'.delay = RetryBackoff
            /\ retry'.operation.index = idx'
            /\ idx' <= (IF engine = "mistral" THEN Len(chunks') ELSE Len(segments'))
            /\ IF retry.operation = NoOperation
               THEN retry'.operation.index = 1
               ELSE OperationBefore(retry.operation, retry'.operation)
       /\ (retry'.operation = retry.operation /\ retry' # retry) =>
            /\ Len(retry'.calls) = Len(retry.calls) + 1
            /\ retry.result.kind = "none"
       /\ Len(retry'.calls) <= retry_attempts
       /\ retry'.attempt <= retry_attempts
       /\ retry'.result.kind = "none" => retry'.attempt = Len(retry'.calls) + 1
       /\ retry'.delay = RetryBackoff * Pow2(Len(retry'.sleeps))
       /\ Len(retry'.sleeps) <= retry_attempts - 1]_vars

\* the upload of the second chunk took both of its attempts; the OCR call
\* of the chunk starts with its own two attempts and the base delay
RetryLocalWitness ==
    /\ pc = "ocr"
    /\ idx = 2
    /\ upload = 2
    /\ retry_attempts = 2
    /\ retry = RetryEntry(Operation("mistral_process", 2))
    /\ retry.delay = RetryBackoff

====
